---- MODULE Spec2Model ----
(***************************************************************************)
(* State-machine model of the cloud edit-session contribution              *)
(* (editSessions.contribution.ts): resuming an edit session from the cloud *)
(* store, the automatic resume at startup, Continue Working On, and        *)
(* storing the working changes; and of the terminal service                *)
(* (terminalService.ts): reconnecting to the terminals of a stored layout  *)
(* and taking part in window shutdown.                                     *)
(***************************************************************************)
EXTENDS Integers, Sequences, FiniteSets, TLC

\* ------------------------------------------------------------------ bounds

\* Longest list of working changes of one folder of an edit session.
MaxChanges == 2

\* Most edit sessions the cloud store holds.
MaxStored == 1

\* Most tabs of a terminal layout, and most terminals of one tab.
MaxTabs == 2
MaxTerminalsPerTab == 2

\* Most terminal instances alive when the window shuts down.
MaxInstances == 2

\* ------------------------------------------------------------- vocabulary

Undefined == "undefined"
Absent == "<absent>"

Addition == "addition"
Deletion == "deletion"

EMPTY == "EMPTY"
FOLDER == "FOLDER"
WORKSPACE == "WORKSPACE"

MatchComplete == "complete"
MatchPartial == "partial"
MatchNone == "none"

\* The schema version this client understands; storeEditSession writes it.
EditSessionSchemaVersion == 2

\* Configuration keys read by the contribution.
AutoResumeKey == "workbench.cloudChanges.autoResume"
AutoStoreKey == "workbench.experimental.cloudChanges.autoStore"
PartialMatchesKey == "workbench.experimental.cloudChanges.partialMatches.enabled"
useEditSessionsWithContinueOn == "workbench.editSessions.continueOn"
\* The setting registered for Continue Working On.
ContinueOnSetting == "workbench.cloudChanges.continueOn"

ConfigKeys ==
    {AutoResumeKey, AutoStoreKey, PartialMatchesKey, useEditSessionsWithContinueOn,
     ContinueOnSetting}

\* Notifications.
NoCloudChanges == "There are no changes to resume from the cloud."
NoCloudChangesForRef == "Could not resume changes from the cloud for ID."
ClientTooOld == "Please upgrade to a newer version"
ResumeFailed == "Failed to resume your working changes from the cloud."
SkippedStoring == "Skipped storing working changes in the cloud as there are no edits to store."

\* File contents and their base64 encodings.
Contents == {"x", "y"}

VARIABLES
    workbenchState,   \* contextService.getWorkbenchState()
    folders,          \* contextService.getWorkspace().folders
    files,            \* the file system: uri -> content, or Absent
    repositories,     \* scmService.repositories
    cloud,            \* the cloud store: sequence of [ref, editSession], latest last
    config,           \* configurationService: key -> value
    isSignedIn,       \* editSessionsStorageService.isSignedIn
    pc,               \* position of the running operation
    args,             \* [ref, silent, force] of the running resumeEditSession
    data,             \* [ref, editSession] read from the cloud store
    changes,          \* the changes generateChanges returned
    next,             \* index of the change the loop of resumeEditSession is at
    conflictingChanges,
    confirmed,        \* answer to the overwrite dialog: "none", "yes", "no"
    threw,            \* what threw inside the try block, or "none"
    initCalls,        \* initialize(fromContinueOn, silent) calls made by resumeEditSession
    initResult,       \* what that initialize returned: "none", "ok", "failed"
    reads,            \* refs passed to editSessionsStorageService.read
    storeDeletes,     \* refs passed to editSessionsStorageService.delete
    fileOps,          \* per completed loop iteration: [op, uri, before], op the file
                      \* service call made ("writeFile", "del", or "none")
    notifications,    \* messages shown by notificationService
    prompts,          \* refs of pending 'Resume' prompts (partial identity match)
    dialogs,          \* number of confirm dialogs shown
    telemetry,        \* outcomes reported
    caller,           \* who awaits the running resumeEditSession
    editSessionId,    \* environmentService.editSessionId
    continueOn,       \* environmentService.continueOn
    applicationLaunchedViaContinueOn,  \* the stored APPLICATION_LAUNCHED_VIA_CONTINUE_ON flag
    accountsMenuBadge,      \* the accounts menu shows the 'pending cloud changes' badge
    pendingSignInListener,  \* handlePendingEditSessions waits for onDidSignIn
    signInPrompts,    \* sites that called initialize(true): the user is asked to sign in
    run,              \* the last store / Continue Working On operation and its inputs
    saves,            \* editorService.saveAll() calls of that operation
    storeCalls,       \* storeEditSession calls of that operation: <<fromStoreCommand>>
    writes,           \* edit sessions passed to editSessionsStorageService.write
    storeResult,      \* what storeEditSession returned
    opened,           \* URIs opened externally by openerService.open
    platform,         \* [isWeb, isMacintosh]
    terminalConfig,   \* configHelper.config of the terminal service
    startupKind,      \* lifecycleService.startupKind
    layoutInfo,       \* the backend's terminal layout info
    groups,           \* terminalGroupService.groups: instance ids, group by group
    editorInstances,  \* terminalEditorService.instances: instance ids
    terminals,        \* instance id -> the terminal instance
    activeGroup,      \* terminalGroupService.activeGroup: index into groups, or 0
    activeInstance,   \* the instance passed to setActiveInstance last, or 0
    isShuttingDown,   \* TerminalService._isShuttingDown
    shutdownWindowCount,  \* TerminalService._shutdownWindowCount
    terminalPc,       \* position of the terminal service in its life
    shutdown,         \* the running or last shutdown attempt and what it did
    reconnectResult   \* what _recreateTerminalGroups returned

vars ==
    <<workbenchState, folders, files, repositories, cloud, config, isSignedIn, pc, args,
      data, changes, next, conflictingChanges, confirmed, threw, initCalls, initResult, reads,
      storeDeletes, fileOps, notifications, prompts, dialogs, telemetry, caller, editSessionId,
      continueOn, applicationLaunchedViaContinueOn, accountsMenuBadge,
      pendingSignInListener, signInPrompts, run, saves, storeCalls, writes, storeResult,
      opened, platform, terminalConfig, startupKind, layoutInfo, groups, editorInstances,
      terminals, activeGroup, activeInstance, isShuttingDown, shutdownWindowCount,
      terminalPc, shutdown, reconnectResult>>

terminalService ==
    <<platform, terminalConfig, startupKind, layoutInfo, groups, editorInstances,
      terminals, activeGroup, activeInstance, isShuttingDown, shutdownWindowCount,
      terminalPc, shutdown, reconnectResult>>

storing == <<run, saves, storeCalls, writes, storeResult, opened>>

workspace == <<workbenchState, folders, repositories, config>>

account ==
    <<isSignedIn, editSessionId, continueOn, applicationLaunchedViaContinueOn,
      accountsMenuBadge, pendingSignInListener, signInPrompts>>

world == <<workspace, account>>

\* ---------------------------------------------------------------- helpers

Range(s) == {s[i] : i \in DOMAIN s}

\* encodeBase64 of a file's content.
encodeBase64(c) ==
    CASE c = "x" -> "eA=="
      [] c = "y" -> "eQ=="
      [] OTHER -> "?"

decodeBase64(e) ==
    CASE e = "eA==" -> "x"
      [] e = "eQ==" -> "y"
      [] OTHER -> "?"

\* decodeEditSessionFileContent(version, content): version 1 stored the text
\* itself, version 2 stores base64.
decodeEditSessionFileContent(version, content) ==
    IF version = 1 THEN content ELSE decodeBase64(content)

\* sha1Hex is only compared for equality; a digest stands for its input.
sha1Hex(s) == <<"sha1", s>>

\* joinPath(folderRoot.uri, relativeFilePath)
joinPath(folderUri, relativeFilePath) == [root |-> folderUri, path |-> relativeFilePath]

\* contextService.getWorkspaceFolder(resource): the index of the workspace
\* folder that contains the resource, 0 when there is none.
getWorkspaceFolder(root) ==
    IF \E i \in DOMAIN folders : folders[i].uri = root
    THEN CHOOSE i \in DOMAIN folders :
            /\ folders[i].uri = root
            /\ \A j \in DOMAIN folders : folders[j].uri = root => i <= j
    ELSE 0

WorkspaceFolderName(root) ==
    IF getWorkspaceFolder(root) = 0 THEN Undefined ELSE folders[getWorkspaceFolder(root)].name

\* fileService.exists(uri)
exists(uri) == uri \in DOMAIN files /\ files[uri] # Absent

\* getChangedResources(repository): the resources of all resource groups.
getChangedResources(repository) == UNION Range(repository.groups)

\* editSessionIdentityService.provideEditSessionIdentityMatch: the answer of
\* the identity provider for two identities that are not equal.
provideEditSessionIdentityMatch(identity1, identity2) ==
    CASE {identity1, identity2} = {"id1", "id1c"} -> MatchComplete
      [] {identity1, identity2} = {"id1", "id1p"} -> MatchPartial
      [] OTHER -> MatchNone

\* The workspace folder matched to a folder of the edit session by identity:
\* [root |-> index or 0, prompted |-> a 'Resume' prompt was shown].
RECURSIVE MatchIdentityFrom(_, _, _, _)
MatchIdentityFrom(folder, force, i, prompted) ==
    IF i > Len(folders) THEN [root |-> 0, prompted |-> prompted]
    ELSE LET identity == folders[i].identity IN
         IF identity = folder.canonicalIdentity THEN [root |-> i, prompted |-> prompted]
         ELSE IF identity # Undefined
         THEN LET match == provideEditSessionIdentityMatch(identity, folder.canonicalIdentity) IN
              IF match = MatchComplete THEN [root |-> i, prompted |-> prompted]
              ELSE IF match = MatchPartial /\ config[PartialMatchesKey] = TRUE
              THEN IF ~force
                   THEN MatchIdentityFrom(folder, force, i + 1, TRUE)
                   ELSE [root |-> i, prompted |-> prompted]
              ELSE MatchIdentityFrom(folder, force, i + 1, prompted)
         ELSE MatchIdentityFrom(folder, force, i + 1, prompted)

\* workspaceFolders.find((f) => f.name === folder.name)
FindByName(name) ==
    IF \E i \in DOMAIN folders : folders[i].name = name
    THEN CHOOSE i \in DOMAIN folders :
            /\ folders[i].name = name
            /\ \A j \in DOMAIN folders : folders[j].name = name => i <= j
    ELSE 0

FolderRoot(folder, force) ==
    IF folder.canonicalIdentity # Undefined
    THEN MatchIdentityFrom(folder, force, 1, FALSE)
    ELSE [root |-> FindByName(folder.name), prompted |-> FALSE]

\* The local changes generateChanges collects for one folder of the session.
LocalChanges(folder) ==
    UNION {getChangedResources(repositories[r]) : r \in
            {q \in DOMAIN repositories :
                /\ repositories[q].rootUri # Undefined
                /\ WorkspaceFolderName(repositories[q].rootUri) = folder.name}}

\* willChangeLocalContents: "true", "false", or "throws" (readFile of a file
\* that does not exist rejects).
willChangeLocalContents(localChanges, uri, incomingChange) ==
    IF uri \notin localChanges THEN "false"
    ELSE IF incomingChange.type = Addition
    THEN IF ~exists(uri) THEN "throws"
         ELSE IF sha1Hex(incomingChange.contents) # sha1Hex(encodeBase64(files[uri]))
              THEN "true" ELSE "false"
    ELSE IF exists(uri) THEN "true" ELSE "false"

FolderChanges(folder, rootUri) ==
    [j \in DOMAIN folder.workingChanges |->
        [uri |-> joinPath(rootUri, folder.workingChanges[j].relativeFilePath),
         type |-> folder.workingChanges[j].type,
         contents |-> folder.workingChanges[j].contents]]

\* generateChanges(editSession, ref, force), from folder k on, with what was
\* collected so far.
RECURSIVE GenerateFrom(_, _, _, _)
GenerateFrom(editSession, force, k, acc) ==
    IF k > Len(editSession.folders) THEN acc
    ELSE LET folder == editSession.folders[k]
             m == FolderRoot(folder, force)
             prompted == acc.prompted \/ m.prompted
         IN  IF m.root = 0
             THEN [changes |-> <<>>, conflictingChanges |-> <<>>, prompted |-> prompted,
                   threw |-> FALSE]
             ELSE LET localChanges == LocalChanges(folder)
                      fc == FolderChanges(folder, folders[m.root].uri)
                      will == [j \in DOMAIN fc |->
                                 willChangeLocalContents(localChanges, fc[j].uri,
                                                         folder.workingChanges[j])]
                  IN  IF \E j \in DOMAIN fc : will[j] = "throws"
                      THEN [changes |-> <<>>, conflictingChanges |-> <<>>,
                            prompted |-> prompted, threw |-> TRUE]
                      ELSE GenerateFrom(editSession, force, k + 1,
                              [changes |-> acc.changes \o fc,
                               conflictingChanges |-> acc.conflictingChanges \o
                                    SelectSeq(fc, LAMBDA c :
                                        willChangeLocalContents(localChanges, c.uri, c) = "true"),
                               prompted |-> prompted,
                               threw |-> FALSE])

generateChanges(editSession, force) ==
    GenerateFrom(editSession, force, 1,
        [changes |-> <<>>, conflictingChanges |-> <<>>, prompted |-> FALSE, threw |-> FALSE])

\* editSessionsStorageService.read(ref): the latest session when ref is
\* undefined; 0 when there is no such session, else its index in the store.
read(ref) ==
    IF ref = Undefined THEN Len(cloud)
    ELSE IF \E i \in DOMAIN cloud : cloud[i].ref = ref
         THEN CHOOSE i \in DOMAIN cloud : cloud[i].ref = ref
         ELSE 0

\* editSessionsStorageService.delete(ref)
delete(ref) == SelectSeq(cloud, LAMBDA e : e.ref # ref)

\* ------------------------------------------------------- resumeEditSession

NoData == [ref |-> Undefined, editSession |-> [version |-> 0, folders |-> <<>>]]

\* What one call of resumeEditSession has done is recorded from scratch: the
\* logs below are those of the running (or last) call.
ResumeReturns(r, s, f, who) ==
    /\ pc' = "done"
    /\ args' = [ref |-> r, silent |-> s, force |-> f]
    /\ caller' = who
    /\ changes' = <<>>
    /\ next' = 1
    /\ conflictingChanges' = <<>>
    /\ confirmed' = "none"
    /\ storeDeletes' = {}
    /\ fileOps' = <<>>
    /\ dialogs' = 0
    /\ UNCHANGED <<workspace, files, cloud>>

\* Variant: the check of the workbench state is missing.
IsEmptyWorkspace_Missing == FALSE

\* Edit sessions are not supported in empty workspaces.
IsEmptyWorkspace == workbenchState = EMPTY

\* Variant: the answer of initialize is ignored.
SilentInitFails_Ignored(silent, initOk) == FALSE

\* silent && !(await editSessionsStorageService.initialize(false, true))
SilentInitFails(silent, initOk) == silent /\ ~initOk

\* Variant: the comparison is off by one.
ClientUpdateNeeded_OffByOne(version) == version > EditSessionSchemaVersion + 1

\* editSession.version > EditSessionSchemaVersion
ClientUpdateNeeded(version) == version > EditSessionSchemaVersion

\* resumeEditSession(ref, silent, force) up to the first point where it waits
\* for the user or the file system.  initOk is the answer of
\* editSessionsStorageService.initialize(false, true); pending are the
\* 'Resume' prompts still shown.
resumeEditSession(r, s, f, initOk, pending, who) ==
    IF IsEmptyWorkspace
    THEN /\ ResumeReturns(r, s, f, who)
         /\ data' = NoData
         /\ threw' = "none"
         /\ initResult' = "none"
         /\ reads' = {}
         /\ notifications' = {}
         /\ telemetry' = {}
         /\ prompts' = pending
         /\ initCalls' = {}
    ELSE IF SilentInitFails(s, initOk)
    THEN /\ ResumeReturns(r, s, f, who)
         /\ data' = NoData
         /\ threw' = "none"
         /\ initCalls' = {<<FALSE, TRUE>>}
         /\ initResult' = IF initOk THEN "ok" ELSE "failed"
         /\ reads' = {}
         /\ notifications' = {}
         /\ telemetry' = {}
         /\ prompts' = pending
    ELSE
     /\ initCalls' = IF s THEN {<<FALSE, TRUE>>} ELSE {}
     /\ initResult' = IF ~s THEN "none" ELSE IF initOk THEN "ok" ELSE "failed"
     /\ reads' = {r}
     /\ IF read(r) = 0
        THEN /\ ResumeReturns(r, s, f, who)
             /\ data' = NoData
             /\ threw' = "none"
             /\ notifications' =
                    IF r = Undefined /\ ~s THEN {NoCloudChanges}
                    ELSE IF r # Undefined THEN {NoCloudChangesForRef}
                    ELSE {}
             /\ telemetry' = {"editSessions.resume"}
             /\ prompts' = pending
        ELSE LET d == cloud[read(r)] IN
             /\ data' = d
             /\ IF ClientUpdateNeeded(d.editSession.version)
                THEN /\ ResumeReturns(r, s, f, who)
                     /\ threw' = "none"
                     /\ notifications' = {ClientTooOld}
                     /\ telemetry' = {"editSessions.resume", "clientUpdateNeeded"}
                     /\ prompts' = pending
                ELSE LET g == generateChanges(d.editSession, f) IN
                     /\ prompts' = IF g.prompted THEN pending \cup {d.ref} ELSE pending
                     /\ telemetry' = {"editSessions.resume"}
                     /\ IF g.threw
                        THEN /\ ResumeReturns(r, s, f, who)
                             /\ threw' = "generateChanges"
                             /\ notifications' = {ResumeFailed}
                        ELSE IF Len(g.changes) = 0
                        THEN /\ ResumeReturns(r, s, f, who)
                             /\ threw' = "none"
                             /\ notifications' = {}
                        ELSE /\ pc' = IF Len(g.conflictingChanges) > 0
                                      THEN "confirm" ELSE "apply"
                             /\ dialogs' = IF Len(g.conflictingChanges) > 0 THEN 1 ELSE 0
                             /\ args' = [ref |-> r, silent |-> s, force |-> f]
                             /\ caller' = who
                             /\ changes' = g.changes
                             /\ next' = 1
                             /\ conflictingChanges' = g.conflictingChanges
                             /\ confirmed' = "none"
                             /\ threw' = "none"
                             /\ notifications' = {}
                             /\ storeDeletes' = {}
                             /\ fileOps' = <<>>
                             /\ UNCHANGED <<workspace, files, cloud>>

Refs == {"r1"}

\* A call of the public method, with any arguments.
ResumeEditSession ==
    /\ pc = "idle"
    /\ UNCHANGED <<storing, terminalService>>
    /\ \E r \in Refs \cup {Undefined}, s \in BOOLEAN, f \in BOOLEAN, initOk \in BOOLEAN :
          /\ (~s => initOk)
          /\ resumeEditSession(r, s, f, initOk, prompts, "api")
    /\ UNCHANGED account

\* The user clicks 'Resume' on the prompt of a partial identity match:
\* resumeEditSession(ref, false, true).
PromptResume ==
    /\ pc = "done"
    /\ UNCHANGED <<storing, terminalService>>
    /\ \E r \in prompts : resumeEditSession(r, FALSE, TRUE, TRUE, prompts \ {r}, "prompt")
    /\ UNCHANGED account

\* Variant: the answer to the dialog is not looked at.
ResumeConfirm_Ignored ==
    /\ pc = "confirm"
    /\ UNCHANGED <<storing, terminalService>>
    /\ \E c \in BOOLEAN :
          /\ confirmed' = IF c THEN "yes" ELSE "no"
          /\ pc' = "apply"
    /\ UNCHANGED <<world, files, cloud, args, data, changes, next, conflictingChanges, threw,
                   initCalls, initResult, reads, storeDeletes, fileOps, notifications,
                   prompts, dialogs, telemetry, caller>>

\* The user answers the 'will overwrite' dialog.
ResumeConfirm ==
    /\ pc = "confirm"
    /\ UNCHANGED <<storing, terminalService>>
    /\ \E c \in BOOLEAN :
          /\ confirmed' = IF c THEN "yes" ELSE "no"
          /\ pc' = IF c THEN "apply" ELSE "done"
    /\ UNCHANGED <<world, files, cloud, args, data, changes, next, conflictingChanges, threw,
                   initCalls, initResult, reads, storeDeletes, fileOps, notifications,
                   prompts, dialogs, telemetry, caller>>

\* The catch block of resumeEditSession.
ResumeCatch(what) ==
    /\ threw' = what
    /\ notifications' = notifications \cup {ResumeFailed}
    /\ pc' = "done"

\* One iteration of the loop that applies the changes; the file service may
\* throw.
ResumeApplyChange ==
    /\ pc = "apply"
    /\ UNCHANGED <<storing, terminalService>>
    /\ next <= Len(changes)
    /\ LET c == changes[next] IN
       \/ /\ c.type = Addition
          /\ files' = [files EXCEPT
                         ![c.uri] = decodeEditSessionFileContent(data.editSession.version,
                                                                 c.contents)]
          /\ fileOps' = Append(fileOps, [op |-> "writeFile", uri |-> c.uri,
                                         before |-> files[c.uri]])
          /\ next' = next + 1
          /\ UNCHANGED <<pc, threw, notifications>>
       \/ /\ c.type = Addition
          /\ ResumeCatch("writeFile")
          /\ UNCHANGED <<files, fileOps, next>>
       \/ /\ c.type = Deletion
          /\ exists(c.uri)
          /\ files' = [files EXCEPT ![c.uri] = Absent]
          /\ fileOps' = Append(fileOps, [op |-> "del", uri |-> c.uri,
                                         before |-> files[c.uri]])
          /\ next' = next + 1
          /\ UNCHANGED <<pc, threw, notifications>>
       \/ /\ c.type = Deletion
          /\ exists(c.uri)
          /\ ResumeCatch("del")
          /\ UNCHANGED <<files, fileOps, next>>
       \/ /\ c.type = Deletion
          /\ ~exists(c.uri)
          /\ fileOps' = Append(fileOps, [op |-> "none", uri |-> c.uri,
                                         before |-> files[c.uri]])
          /\ next' = next + 1
          /\ UNCHANGED <<files, pc, threw, notifications>>
    /\ UNCHANGED <<world, cloud, args, data, changes, conflictingChanges, confirmed,
                   initCalls, initResult, reads, storeDeletes, prompts, dialogs, telemetry,
                   caller>>

\* Variant: the session is deleted before the loop has finished.
ResumeDeleteSession_Early ==
    /\ pc = "apply"
    /\ UNCHANGED <<storing, terminalService>>
    /\ storeDeletes = {}
    /\ storeDeletes' = storeDeletes \cup {data.ref}
    /\ cloud' = delete(data.ref)
    /\ telemetry' = telemetry \cup {"resumeSucceeded"}
    /\ pc' = IF next > Len(changes) THEN "done" ELSE pc
    /\ UNCHANGED <<threw, notifications>>
    /\ UNCHANGED <<world, files, args, data, changes, next, conflictingChanges, confirmed,
                   initCalls, initResult, reads, fileOps, prompts, dialogs, caller>>

\* After the loop: the session is deleted from the cloud store.
ResumeDeleteSession ==
    /\ pc = "apply"
    /\ UNCHANGED <<storing, terminalService>>
    /\ next > Len(changes)
    /\ storeDeletes' = storeDeletes \cup {data.ref}
    /\ \/ /\ cloud' = delete(data.ref)
          /\ telemetry' = telemetry \cup {"resumeSucceeded"}
          /\ pc' = "done"
          /\ UNCHANGED <<threw, notifications>>
       \/ /\ ResumeCatch("delete")
          /\ UNCHANGED <<cloud, telemetry>>
    /\ UNCHANGED <<world, files, args, data, changes, next, conflictingChanges, confirmed,
                   initCalls, initResult, reads, fileOps, prompts, dialogs, caller>>

\* ------------------------------------------------------- storeEditSession

Directory == "<directory>"

PayloadTooLarge == "Your working changes exceed the size limit and cannot be stored."
PayloadFailed == "Your working changes cannot be stored."

\* Outcomes of editSessionsStorageService.write: a ref, a UserDataSyncStoreError
\* with code TooLarge or another code, or another error.
WriteOutcomes == {"ok", "TooLarge", "UserDataSyncStoreError", "Error"}

\* The refs the cloud store hands out, in order.
RefNames == <<"r&3", "r 2", "r1", "r4">>

NoRun ==
    [name |-> "none", signedIn |-> FALSE, shouldStore |-> FALSE, ref |-> Undefined,
     destination |-> [kind |-> "undefined", path |-> "", query |-> ""],
     write |-> "none", threw |-> FALSE]

\* The resources a repository can list, in the order they are visited.
ResourceOrder ==
    <<[root |-> "/a", path |-> "f"], [root |-> "/a", path |-> "d"],
      [root |-> "/out", path |-> "f"]>>

\* Variant: resources that are not files are stored too.
IsNotAFile_Ignored(uri) == FALSE

\* !(await fileService.stat(uri)).isFile; a stat that throws is swallowed.
IsNotAFile(uri) == files[uri] = Directory

\* Variant: resources outside the workspace folders are recorded too.
HasNoWorkspaceFolder_Ignored(uri) == FALSE

\* if (!workspaceFolder) continue, in the loop over the tracked URIs
HasNoWorkspaceFolder(uri) == getWorkspaceFolder(uri.root) = 0

\* The working changes storeEditSession records for one repository.
WorkingChangesOf(repository) ==
    LET tracked == getChangedResources(repository)
        kept == SelectSeq(ResourceOrder, LAMBDA u :
                    /\ u \in tracked
                    /\ ~HasNoWorkspaceFolder(u)
                    /\ ~IsNotAFile(u))
    IN  [j \in DOMAIN kept |->
            IF exists(kept[j])
            THEN [relativeFilePath |-> kept[j].path, type |-> Addition,
                  contents |-> encodeBase64(files[kept[j]])]
            ELSE [relativeFilePath |-> kept[j].path, type |-> Deletion,
                  contents |-> Undefined]]

\* The folder storeEditSession pushes for one repository.
FolderOf(repository) ==
    LET tracked == getChangedResources(repository)
        inWorkspace == SelectSeq(ResourceOrder, LAMBDA u :
                          u \in tracked /\ getWorkspaceFolder(u.root) # 0)
        workspaceFolder == IF repository.rootUri = Undefined THEN 0
                           ELSE getWorkspaceFolder(repository.rootUri)
        name == IF workspaceFolder # 0 THEN folders[workspaceFolder].name
                ELSE IF Len(inWorkspace) > 0 THEN WorkspaceFolderName(inWorkspace[1].root)
                ELSE ""
    IN  [workingChanges |-> WorkingChangesOf(repository),
         name |-> name,
         canonicalIdentity |-> IF workspaceFolder # 0 THEN folders[workspaceFolder].identity
                               ELSE Undefined]

hasEdits == \E q \in DOMAIN repositories : Len(WorkingChangesOf(repositories[q])) > 0

\* Variant: only a UserDataSyncStoreError is caught.
StoreCatches_OnlySyncErrors(outcome) == outcome # "Error"

\* catch (ex) around editSessionsStorageService.write: every error is caught.
StoreCatches(outcome) == TRUE

\* storeEditSession(fromStoreCommand, token), given what write will answer:
\* what it returns and what it does.
storeEditSession(fromStoreCommand, outcome) ==
    LET session == [folders |-> [q \in DOMAIN repositories |-> FolderOf(repositories[q])],
                    version |-> 2]
    IN  IF ~hasEdits
        THEN [ref |-> Undefined, written |-> <<>>,
              outcome |-> "none", threw |-> FALSE,
              notifications |-> IF fromStoreCommand THEN {SkippedStoring} ELSE {},
              telemetry |-> {}]
        ELSE [ref |-> IF outcome = "ok" THEN RefNames[Len(cloud) + 1] ELSE Undefined,
              written |-> <<session>>,
              outcome |-> outcome,
              threw |-> outcome # "ok" /\ ~StoreCatches(outcome),
              notifications |->
                  CASE outcome = "TooLarge" -> {PayloadTooLarge}
                    [] outcome = "UserDataSyncStoreError" -> {PayloadFailed}
                    [] OTHER -> {},
              telemetry |->
                  CASE outcome = "TooLarge" -> {"editSessions.upload.failed:TooLarge"}
                    [] outcome = "UserDataSyncStoreError" -> {"editSessions.upload.failed:unknown"}
                    [] OTHER -> {}]

\* The cloud store after storeEditSession returned st.
Stored(st) ==
    IF st.ref # Undefined
    THEN Append(cloud, [ref |-> st.ref, editSession |-> st.written[1]])
    ELSE cloud

resumeState ==
    <<pc, args, data, changes, next, conflictingChanges, confirmed, threw, initCalls,
      initResult, reads, storeDeletes, fileOps, prompts, dialogs, caller>>

\* The Store Working Changes in Cloud command.
StoreLatestEditSession ==
    /\ pc = "idle"
    /\ Len(cloud) < MaxStored
    /\ \E outcome \in IF hasEdits THEN WriteOutcomes ELSE {"ok"} :
          \E st \in {storeEditSession(TRUE, outcome)} :
          /\ run' = [NoRun EXCEPT !.name = "store", !.signedIn = isSignedIn, !.ref = st.ref,
                                  !.write = st.outcome, !.threw = st.threw]
          /\ saves' = 1
          /\ storeCalls' = <<TRUE>>
          /\ writes' = st.written
          /\ storeResult' = st.ref
          /\ cloud' = Stored(st)
          /\ notifications' = st.notifications
          /\ telemetry' = {"editSessions.store"} \cup st.telemetry
    /\ opened' = <<>>
    /\ UNCHANGED <<workspace, account, files, resumeState, terminalService>>

\* Variant: shutdown always stores.
ShouldAutoStore_Always == TRUE

\* getValue('workbench.experimental.cloudChanges.autoStore') === 'onShutdown'
ShouldAutoStore == config[AutoStoreKey] = "onShutdown"

\* lifecycleService.onWillShutdown: autoStoreEditSession().
WillShutdown ==
    /\ pc = "idle"
    /\ Len(cloud) < MaxStored
    /\ pc' = "shutdown"
    /\ IF ShouldAutoStore
       THEN \E outcome \in IF hasEdits THEN WriteOutcomes ELSE {"ok"} :
               \E st \in {storeEditSession(FALSE, outcome)} :
               /\ run' = [NoRun EXCEPT !.name = "shutdown", !.signedIn = isSignedIn,
                                       !.ref = st.ref, !.write = st.outcome,
                                       !.threw = st.threw]
               /\ saves' = 1
               /\ storeCalls' = <<FALSE>>
               /\ writes' = st.written
               /\ storeResult' = st.ref
               /\ cloud' = Stored(st)
               /\ notifications' = st.notifications
               /\ telemetry' = st.telemetry
       ELSE /\ run' = [NoRun EXCEPT !.name = "shutdown", !.signedIn = isSignedIn]
            /\ saves' = 0
            /\ storeCalls' = <<>>
            /\ writes' = <<>>
            /\ storeResult' = Undefined
            /\ notifications' = {}
            /\ telemetry' = {}
            /\ UNCHANGED cloud
    /\ opened' = <<>>
    /\ UNCHANGED <<workspace, account, files, args, data, changes, next, conflictingChanges,
                   confirmed, threw, initCalls, initResult, reads, storeDeletes, fileOps,
                   prompts, dialogs, caller, terminalService>>

\* hasEditSession(): some repository lists a changed resource.
hasEditSession ==
    \E q \in DOMAIN repositories : getChangedResources(repositories[q]) # {}

\* encodeURIComponent(ref)
encodeURIComponent(ref) ==
    CASE ref = "r 2" -> "r%202"
      [] ref = "r&3" -> "r%263"
      [] OTHER -> ref

queryParamName == "editSessionId"

\* Variant: the parameters are always appended after an ampersand.
WithEditSessionQuery_AlwaysAmpersand(uri, ref) ==
    [uri EXCEPT !.query =
        uri.query \o "&" \o queryParamName \o "=" \o encodeURIComponent(ref)
            \o "&continueOn=1"]

\* uri.with({ query: ... }) of the Continue Working On action.
WithEditSessionQuery(uri, ref) ==
    [uri EXCEPT !.query =
        IF Len(uri.query) > 0
        THEN uri.query \o "&" \o queryParamName \o "=" \o encodeURIComponent(ref)
                 \o "&continueOn=1"
        ELSE queryParamName \o "=" \o encodeURIComponent(ref) \o "&continueOn=1"]

\* Destinations: a URI without or with a query.
DestinationUris ==
    {[kind |-> "uri", path |-> "vscode://remote/home", query |-> ""],
     [kind |-> "uri", path |-> "vscode://remote/home", query |-> "windowId=1"]}

NoDestinationUri == [kind |-> "noDestinationUri", path |-> "", query |-> ""]
UndefinedUri == [kind |-> "undefined", path |-> "", query |-> ""]

\* The key of the setting shouldContinueOnWithEditSession reads.
ContinueOnDisabled == config[useEditSessionsWithContinueOn] = "off"

\* shouldContinueOnWithEditSession() asks the user to sign in.
AsksSignIn == ~isSignedIn /\ ~ContinueOnDisabled /\ hasEditSession

\* shouldContinueOnWithEditSession(), given the answer to the sign-in prompt.
shouldContinueOnWithEditSession(signsIn) ==
    IF isSignedIn THEN hasEditSession
    ELSE IF ContinueOnDisabled THEN FALSE
    ELSE IF hasEditSession THEN signsIn
    ELSE FALSE

\* The action returns because no destination was picked.
ContinueNoSelection ==
    /\ run' = [NoRun EXCEPT !.name = "continue", !.signedIn = isSignedIn]
    /\ telemetry' = {"noSelection"}
    /\ saves' = 0
    /\ storeCalls' = <<>>
    /\ writes' = <<>>
    /\ storeResult' = Undefined
    /\ notifications' = {}
    /\ opened' = <<>>
    /\ UNCHANGED <<cloud, isSignedIn, signInPrompts>>

\* The action from the sign-in check on: uri is the destination it resolved.
ContinueWith(uri, signsIn, outcome) ==
    \E shouldStore \in {shouldContinueOnWithEditSession(signsIn)},
       st \in {storeEditSession(FALSE, outcome)} :
    LET ref == IF shouldStore THEN st.ref ELSE Undefined
        \* storeEditSession threw: the action logs storeFailed and rethrows
        failed == shouldStore /\ st.threw
    IN  /\ signInPrompts' = IF AsksSignIn
                            THEN signInPrompts \cup {"shouldContinueOnWithEditSession"}
                            ELSE signInPrompts
        /\ isSignedIn' = (isSignedIn \/ (AsksSignIn /\ signsIn))
        /\ saves' = IF shouldStore THEN 1 ELSE 0
        /\ storeCalls' = IF shouldStore THEN <<FALSE>> ELSE <<>>
        /\ writes' = IF shouldStore THEN st.written ELSE <<>>
        /\ storeResult' = ref
        /\ cloud' = IF shouldStore THEN Stored(st) ELSE cloud
        /\ notifications' = IF shouldStore THEN st.notifications ELSE {}
        /\ telemetry' =
              (IF ~isSignedIn /\ ContinueOnDisabled
               THEN {"disabledEditSessionsViaSetting"} ELSE {})
              \cup (IF AsksSignIn /\ ~signsIn
                    THEN {"didNotEnableEditSessionsWhenPrompted"} ELSE {})
              \cup (IF shouldStore
                    THEN {"continueOn.editSessions.store",
                          IF failed THEN "storeFailed"
                          ELSE IF ref # Undefined THEN "storeSucceeded"
                          ELSE "storeSkipped"}
                         \cup st.telemetry
                    ELSE {})
        /\ run' = [name |-> "continue", signedIn |-> isSignedIn,
                   shouldStore |-> shouldStore, ref |-> ref, destination |-> uri,
                   write |-> IF shouldStore THEN st.outcome ELSE "none",
                   threw |-> failed]
        /\ opened' =
              IF failed \/ uri.kind = "undefined" THEN <<>>
              ELSE IF ref # Undefined /\ uri.kind # "noDestinationUri"
              THEN <<WithEditSessionQuery(uri, ref)>>
              ELSE IF ~shouldStore /\ uri.kind # "noDestinationUri"
              THEN <<uri>>
              ELSE <<>>

\* The Continue Working On action: run(accessor, workspaceUri, destination).
\* picked is the user's choice in the destination pick, signsIn the answer to
\* the sign-in prompt of initialize(true), outcome the answer of write, and
\* resolved what the destination command returns.
ContinueEditSessionAction ==
    /\ pc = "idle"
    /\ Len(cloud) < MaxStored
    /\ \E workspaceUri \in DestinationUris \cup {UndefinedUri},
          destination \in {Undefined, "command"} :
       LET picks == destination = Undefined /\ workspaceUri.kind = "undefined" IN
       \* inputs that are not looked at are left at one value
       \E picked \in IF picks THEN {Undefined, "command"} ELSE {Undefined} :
       LET dest == IF picks THEN picked ELSE destination IN
       IF dest = Undefined /\ picks
       THEN ContinueNoSelection
       ELSE \E signsIn \in IF AsksSignIn THEN BOOLEAN ELSE {FALSE} :
            \E outcome \in IF hasEdits /\ shouldContinueOnWithEditSession(signsIn)
                           THEN WriteOutcomes ELSE {"ok"} :
            \E resolved \in IF dest # Undefined
                            THEN DestinationUris \cup {NoDestinationUri, UndefinedUri}
                            ELSE {UndefinedUri} :
               ContinueWith(IF dest # Undefined THEN resolved ELSE workspaceUri,
                            signsIn, outcome)
    /\ UNCHANGED <<workspace, files, resumeState, editSessionId, continueOn,
                   applicationLaunchedViaContinueOn, accountsMenuBadge,
                   pendingSignInListener, terminalService>>

\* ---------------------------------------------------------------- startup

callState ==
    <<args, data, changes, next, conflictingChanges, confirmed, threw, initCalls,
      initResult, reads, storeDeletes, fileOps, notifications, prompts, dialogs, telemetry>>

\* updateAccountsMenuBadge(): the badge is shown iff the user is signed out.
updateAccountsMenuBadge(signedIn) == accountsMenuBadge' = ~signedIn

\* handlePendingEditSessions(): show the badge, resume on the next sign-in.
handlePendingEditSessions(signedIn) ==
    /\ updateAccountsMenuBadge(signedIn)
    /\ pendingSignInListener' = TRUE

\* Variant: the setting is not read, the automatic resume is always on.
shouldAutoResumeOnReload_Always == TRUE

\* configurationService.getValue('workbench.cloudChanges.autoResume') === 'onReload'
shouldAutoResumeOnReload == config[AutoResumeKey] = "onReload"

\* autoResumeEditSession(), called by the constructor.
AutoResumeEditSession ==
    /\ pc = "start"
    /\ UNCHANGED <<storing, terminalService>>
    /\ IF editSessionId # Undefined
       THEN /\ resumeEditSession(editSessionId, FALSE, FALSE, TRUE, prompts,
                                 "autoResume:editSessionId")
            /\ UNCHANGED account
       ELSE IF shouldAutoResumeOnReload /\ isSignedIn
       THEN /\ \E initOk \in BOOLEAN :
                  resumeEditSession(Undefined, TRUE, FALSE, initOk, prompts, "autoResume")
            /\ UNCHANGED account
       ELSE IF shouldAutoResumeOnReload
       THEN IF continueOn # Undefined /\ ~isSignedIn
               /\ applicationLaunchedViaContinueOn = FALSE
            THEN /\ applicationLaunchedViaContinueOn' = TRUE
                 /\ signInPrompts' = signInPrompts \cup {"autoResumeEditSession"}
                 /\ pc' = "signIn"
                 /\ UNCHANGED <<workspace, files, cloud, callState, caller, isSignedIn,
                                editSessionId, continueOn, accountsMenuBadge,
                                pendingSignInListener>>
            ELSE IF ~isSignedIn /\ applicationLaunchedViaContinueOn = TRUE
            THEN /\ handlePendingEditSessions(isSignedIn)
                 /\ pc' = "idle"
                 /\ UNCHANGED <<workspace, files, cloud, callState, caller, isSignedIn,
                                editSessionId, continueOn, applicationLaunchedViaContinueOn,
                                signInPrompts>>
            ELSE /\ pc' = "idle"
                 /\ UNCHANGED <<workspace, files, cloud, callState, caller, account>>
       ELSE /\ pc' = "idle"
            /\ UNCHANGED <<workspace, files, cloud, callState, caller, account>>

\* initialize(true) of autoResumeEditSession returns: the user signed in or
\* did not.
AutoResumeAfterSignIn ==
    /\ pc = "signIn"
    /\ UNCHANGED <<storing, terminalService>>
    /\ \E signedIn \in BOOLEAN :
          /\ isSignedIn' = signedIn
          /\ IF signedIn
             THEN /\ \E initOk \in BOOLEAN :
                        resumeEditSession(Undefined, TRUE, FALSE, initOk, prompts,
                                          "autoResume")
                  /\ UNCHANGED <<accountsMenuBadge, pendingSignInListener>>
             ELSE /\ handlePendingEditSessions(signedIn)
                  /\ pc' = "idle"
                  /\ UNCHANGED <<workspace, files, cloud, callState, caller>>
    /\ UNCHANGED <<editSessionId, continueOn, applicationLaunchedViaContinueOn,
                   signInPrompts>>

\* resumeEditSession has returned to its caller, which goes on.
ResumeReturn ==
    /\ pc = "done"
    /\ UNCHANGED <<storing, terminalService>>
    /\ pc' = "idle"
    /\ caller' = "none"
    /\ editSessionId' = IF caller = "autoResume:editSessionId" THEN Undefined
                        ELSE editSessionId
    /\ applicationLaunchedViaContinueOn' =
          IF caller = "onDidSignIn" THEN FALSE ELSE applicationLaunchedViaContinueOn
    /\ continueOn' = IF caller = "onDidSignIn" THEN Undefined ELSE continueOn
    /\ UNCHANGED <<workspace, files, cloud, callState, isSignedIn, accountsMenuBadge,
                   pendingSignInListener, signInPrompts>>

\* editSessionsStorageService.onDidSignIn fires: the badge is updated, and a
\* pending listener of handlePendingEditSessions resumes silently.
OnDidSignIn ==
    /\ pc = "idle"
    /\ UNCHANGED <<storing, terminalService>>
    /\ ~isSignedIn
    /\ isSignedIn' = TRUE
    /\ updateAccountsMenuBadge(TRUE)
    /\ pendingSignInListener' = FALSE
    /\ IF pendingSignInListener
       THEN \E initOk \in BOOLEAN :
               resumeEditSession(Undefined, TRUE, FALSE, initOk, prompts, "onDidSignIn")
       ELSE UNCHANGED <<workspace, files, cloud, callState, caller, pc>>
    /\ UNCHANGED <<editSessionId, continueOn, applicationLaunchedViaContinueOn,
                   signInPrompts>>

\* editSessionsStorageService.onDidSignOut fires.
OnDidSignOut ==
    /\ pc = "idle"
    /\ UNCHANGED <<storing, terminalService>>
    /\ isSignedIn
    /\ isSignedIn' = FALSE
    /\ updateAccountsMenuBadge(FALSE)
    /\ UNCHANGED <<workspace, files, cloud, callState, caller, pc, editSessionId, continueOn,
                   applicationLaunchedViaContinueOn, pendingSignInListener, signInPrompts>>

\* ----------------------------------------------------- terminal service

\* StartupKind
NewWindow == "NewWindow"
ReloadedWindow == "ReloadedWindow"
ReopenedWindow == "ReopenedWindow"

\* TerminalLocation
Panel == "Panel"
Editor == "Editor"

\* The terminal instances of the panel: terminalGroupService.instances.
GroupInstances(gs) ==
    LET RECURSIVE Flat(_)
        Flat(i) == IF i > Len(gs) THEN <<>> ELSE gs[i] \o Flat(i + 1)
    IN  Flat(1)

\* TerminalService.instances: the panel's instances, then the editors'.
Instances(gs) == GroupInstances(gs) \o editorInstances

\* An id that is undefined.
NoId == 0

\* A terminal of a layout that is null, and the attachPersistentProcess of a
\* terminal that is not reattached.
NullTerminal == [id |-> NoId, isOrphan |-> FALSE, type |-> "null"]

\* The layout info of a backend that holds none: undefined.
UndefinedLayout == [defined |-> FALSE, tabs |-> <<>>]

\* _recreateTerminalGroups has not returned.
NoReconnect == [returned |-> -1, resized |-> {}]

\* shellLaunchConfig.attachPersistentProcess?.id
PersistentProcessId(instance) ==
    IF instance.attachPersistentProcess = NullTerminal THEN NoId
    ELSE instance.attachPersistentProcess.id

\* The filter of _recreateTerminalGroups: t.terminal && t.terminal.isOrphan
IsOrphanTerminal(t) == t.terminal # NullTerminal /\ t.terminal.isOrphan

\* startupKind !== StartupKind.ReloadedWindow && terminal.type === 'Task'
SkipsTask(t) == startupKind # ReloadedWindow /\ t.terminal.type = "Task"

\* createTerminal({ config: { attachPersistentProcess }, location }) for the
\* j-th reattached terminal of a tab: the first one in a new group of the
\* panel, each further one as a split of the instance created before it.
ReattachedInstance(base, attached, j) ==
    [instanceId |-> base + j,
     attachPersistentProcess |-> attached[j].terminal,
     parentTerminalId |-> IF j = 1 THEN 0 ELSE base + j - 1,
     target |-> Panel,
     hasChildProcesses |-> FALSE,
     disposed |-> <<>>]

\* One iteration of the loop over layoutInfo.tabs, on the state st of the
\* loop: [groups, terminals, activeGroup, activeInstance, reconnectCounter,
\* resized].
RecreateGroup(groupLayout, st) ==
    LET terminalLayouts == SelectSeq(groupLayout.terminals, IsOrphanTerminal)
        attached == SelectSeq(terminalLayouts, LAMBDA t : ~SkipsTask(t))
        base == Len(st.terminals)
        created == [j \in 1..Len(attached) |-> ReattachedInstance(base, attached, j)]
        all == st.terminals \o created
        gs == IF Len(attached) > 0
              THEN Append(st.groups, [j \in 1..Len(attached) |-> base + j])
              ELSE st.groups
        candidates == SelectSeq(Instances(gs), LAMBDA i :
                          PersistentProcessId(all[i]) = groupLayout.activePersistentProcessId)
    IN  IF Len(terminalLayouts) = 0 THEN st
        ELSE [groups |-> gs,
              terminals |-> all,
              activeGroup |-> IF Len(attached) > 0 /\ groupLayout.isActive
                              THEN Len(gs) ELSE st.activeGroup,
              activeInstance |-> IF Len(candidates) > 0 THEN candidates[1]
                                 ELSE st.activeInstance,
              reconnectCounter |-> st.reconnectCounter + Len(terminalLayouts),
              resized |-> IF Len(attached) > 0 THEN st.resized \cup {Len(gs)}
                          ELSE st.resized]

RECURSIVE RecreateFrom(_, _, _)
RecreateFrom(tabs, i, st) ==
    IF i > Len(tabs) THEN st
    ELSE RecreateFrom(tabs, i + 1, RecreateGroup(tabs[i], st))

\* _recreateTerminalGroups(layout): the state it leaves and what it returns.
recreateTerminalGroups(layout) ==
    LET start == [groups |-> groups, terminals |-> terminals, activeGroup |-> 0,
                  activeInstance |-> activeInstance, reconnectCounter |-> 0,
                  resized |-> {}]
        end == IF ~layout.defined THEN start ELSE RecreateFrom(layout.tabs, 1, start)
    IN  [end EXCEPT !.activeGroup =
            IF layout.defined /\ Len(layout.tabs) > 0 THEN end.activeGroup
            ELSE activeGroup]

editSessions ==
    <<workspace, account, files, cloud, resumeState, storing, notifications, telemetry>>

\* _reconnectToRemoteTerminals / _reconnectToLocalTerminals, once the backend
\* has answered getTerminalLayoutInfo.
ReconnectToTerminals ==
    /\ terminalPc = "starting"
    /\ terminalPc' = "running"
    /\ \E remote \in BOOLEAN :
          IF remote \/ (layoutInfo.defined /\ Len(layoutInfo.tabs) > 0)
          THEN \E r \in {recreateTerminalGroups(layoutInfo)} :
                  /\ groups' = r.groups
                  /\ terminals' = r.terminals
                  /\ activeGroup' = r.activeGroup
                  /\ activeInstance' = r.activeInstance
                  /\ reconnectResult' = [returned |-> r.reconnectCounter,
                                         resized |-> r.resized]
          ELSE UNCHANGED <<groups, terminals, activeGroup, activeInstance, reconnectResult>>
    /\ UNCHANGED <<platform, terminalConfig, startupKind, layoutInfo, editorInstances,
                   isShuttingDown, shutdownWindowCount, shutdown, editSessions>>

\* ShutdownReason
CLOSE == "CLOSE"
QUIT == "QUIT"
RELOAD == "RELOAD"
LOAD == "LOAD"
ShutdownReasons == {CLOSE, QUIT, RELOAD, LOAD}

\* TerminalExitReason.Shutdown
ExitShutdown == "Shutdown"

\* What nativeDelegate.getWindowCount() and backend.persistTerminalState() answer.
\* _shutdownWindowCount before any shutdown: undefined.
NoWindowCount == 0
\* getWindowCount() rejects.
WindowCountThrows == -1
WindowCounts == {1, 2, WindowCountThrows}
PersistOutcomes == {"ok", "throws"}

NoShutdown ==
    [reason |-> Undefined, hadInstances |-> FALSE, sync |-> FALSE, veto |-> "none",
     dialogs |-> 0, answer |-> "none", persisted |-> 0, layoutCalls |-> 0]

\* _shouldReviveProcesses(reason), with the window count recorded last.
shouldReviveProcesses(reason, windowCount) ==
    IF ~terminalConfig.enablePersistentSessions THEN FALSE
    ELSE CASE terminalConfig.persistentSessionReviveProcess = "onExit" ->
                 IF reason = CLOSE /\ windowCount = 1 /\ ~platform.isMacintosh
                 THEN TRUE
                 ELSE reason = LOAD \/ reason = QUIT
           [] terminalConfig.persistentSessionReviveProcess = "onExitAndWindowClose" ->
                 reason # RELOAD
           [] OTHER -> FALSE

\* config.enablePersistentSessions && reason === ShutdownReason.RELOAD
shouldPersistProcesses(reason) ==
    terminalConfig.enablePersistentSessions /\ reason = RELOAD

\* Variant: confirmOnExit 'hasChildProcesses' asks whenever there are instances.
hasDirtyInstances_NoChildCheck ==
    \/ terminalConfig.confirmOnExit = "always" /\ Len(Instances(groups)) > 0
    \/ terminalConfig.confirmOnExit = "hasChildProcesses" /\ Len(Instances(groups)) > 0

\* hasDirtyInstances of _onBeforeShutdownAsync
hasDirtyInstances ==
    \/ terminalConfig.confirmOnExit = "always" /\ Len(Instances(groups)) > 0
    \/ /\ terminalConfig.confirmOnExit = "hasChildProcesses"
       /\ \E i \in Range(Instances(groups)) : terminals[i].hasChildProcesses

\* Variant: the web is treated like the desktop.
NeverVetoes_Off == FALSE

\* if (isWeb) of _onBeforeShutdown
NeverVetoes == platform.isWeb

\* The shutdown attempt was decided without a veto.
NotVetoed(attempt, flag) ==
    /\ shutdown' = [attempt EXCEPT !.veto = "false"]
    /\ isShuttingDown' = flag
    /\ terminalPc' = "willShutdown"

\* lifecycleService.onBeforeShutdown: _onBeforeShutdown(reason), up to its
\* answer or to the close confirmation it shows.
OnBeforeShutdown ==
    /\ terminalPc = "running"
    /\ \E reason \in ShutdownReasons :
       LET attempt == [NoShutdown EXCEPT !.reason = reason,
                                         !.hadInstances = Len(Instances(groups)) > 0]
       IN
       IF NeverVetoes
       THEN /\ NotVetoed([attempt EXCEPT !.sync = TRUE], TRUE)
            /\ UNCHANGED shutdownWindowCount
       ELSE IF Len(Instances(groups)) = 0
       THEN /\ NotVetoed(attempt, isShuttingDown)
            /\ UNCHANGED shutdownWindowCount
       ELSE \E windowCount \in WindowCounts :
            IF windowCount = WindowCountThrows
            THEN /\ NotVetoed(attempt, TRUE)
                 /\ UNCHANGED shutdownWindowCount
            ELSE /\ shutdownWindowCount' = windowCount
                 /\ \E persist \in IF shouldReviveProcesses(reason, windowCount)
                                   THEN PersistOutcomes ELSE {"ok"} :
                    LET tried == [attempt EXCEPT !.persisted =
                                    IF shouldReviveProcesses(reason, windowCount)
                                    THEN 1 ELSE 0]
                    IN  IF persist = "throws"
                        THEN NotVetoed(tried, TRUE)
                        ELSE IF ~shouldPersistProcesses(reason) /\ hasDirtyInstances
                        THEN /\ shutdown' = [tried EXCEPT !.veto = "pending",
                                                          !.dialogs = 1]
                             /\ terminalPc' = "confirming"
                             /\ UNCHANGED isShuttingDown
                        ELSE NotVetoed(tried, TRUE)
    /\ UNCHANGED <<platform, terminalConfig, startupKind, layoutInfo, groups,
                   editorInstances, terminals, activeGroup, activeInstance,
                   reconnectResult, editSessions>>

\* _onBeforeShutdownConfirmation: the user answers the close confirmation.
OnBeforeShutdownConfirmation ==
    /\ terminalPc = "confirming"
    /\ \E userConfirmed \in BOOLEAN :
          LET veto == ~userConfirmed IN
          /\ shutdown' = [shutdown EXCEPT !.veto = IF veto THEN "true" ELSE "false",
                                          !.answer = IF userConfirmed THEN "terminate"
                                                     ELSE "cancel"]
          /\ isShuttingDown' = IF ~veto THEN TRUE ELSE isShuttingDown
          /\ terminalPc' = IF veto THEN "running" ELSE "willShutdown"
    /\ UNCHANGED <<platform, terminalConfig, startupKind, layoutInfo, groups,
                   editorInstances, terminals, activeGroup, activeInstance,
                   shutdownWindowCount, reconnectResult, editSessions>>

\* Variant: persistent sessions keep the terminals for every shutdown reason.
shouldPersistTerminals_AnyReason(reason) == terminalConfig.enablePersistentSessions

\* shouldPersistTerminals of _onWillShutdown
shouldPersistTerminals(reason) ==
    terminalConfig.enablePersistentSessions /\ reason = RELOAD

\* The panel's instances after call(reason) was made on each of them.
DisposeAll(call) ==
    [i \in DOMAIN terminals |->
        IF i \in Range(GroupInstances(groups))
        THEN [terminals[i] EXCEPT !.disposed = Append(@, <<call, ExitShutdown>>)]
        ELSE terminals[i]]

\* lifecycleService.onWillShutdown: _onWillShutdown(e), e.reason being the
\* reason _onBeforeShutdown was asked with.
OnWillShutdown ==
    /\ terminalPc = "willShutdown"
    /\ terminalPc' = "shutdown"
    /\ IF shouldPersistTerminals(shutdown.reason)
       THEN /\ terminals' = DisposeAll("detachProcessAndDispose")
            /\ UNCHANGED <<layoutInfo, shutdown>>
       ELSE /\ terminals' = DisposeAll("dispose")
            /\ IF ~shouldReviveProcesses(shutdown.reason, shutdownWindowCount)
               THEN /\ layoutInfo' = UndefinedLayout
                    /\ shutdown' = [shutdown EXCEPT !.layoutCalls = 1]
               ELSE UNCHANGED <<layoutInfo, shutdown>>
    /\ UNCHANGED <<platform, terminalConfig, startupKind, groups, editorInstances,
                   activeGroup, activeInstance, isShuttingDown, shutdownWindowCount,
                   reconnectResult, editSessions>>

\* ------------------------------------------------------------ initial states

Roots == {"/a", "/b"}
Paths == {"f"}
Uris == [root : Roots, path : Paths]

\* Sequences over S of length at most n.
SeqUpTo(S, n) == UNION {[1..k -> S] : k \in 0..n}

\* The working changes a session of the given version can hold for a path:
\* an Addition carries the content (text in version 1, base64 since).
SessionChanges(version) ==
    [relativeFilePath : Paths, type : {Deletion}, contents : {Undefined}]
    \cup [relativeFilePath : Paths, type : {Addition},
          contents : {IF version = 1 THEN "x" ELSE encodeBase64("x")}]

UnmatchedFolder(version) ==
    [name |-> "Z", canonicalIdentity |-> Undefined,
     workingChanges |-> <<[relativeFilePath |-> "f", type |-> Addition,
                           contents |-> IF version = 1 THEN "x" ELSE encodeBase64("x")]>>]

Sessions ==
    UNION {
      UNION {{[version |-> v, folders |-> <<F>>],
              [version |-> v, folders |-> <<F, UnmatchedFolder(v)>>],
              [version |-> v, folders |-> <<UnmatchedFolder(v), F>>]} :
             F \in [name : {"A"}, canonicalIdentity : {Undefined, "id1"},
                    workingChanges : SeqUpTo(SessionChanges(v), MaxChanges)]} :
      v \in 1..(EditSessionSchemaVersion + 1)}

FirstFolders ==
    [uri : {"/a"}, name : {"A", "B"}, identity : {"id1", "id1c", "id1p", Undefined}]

SecondFolder == [uri |-> "/b", name |-> "A", identity |-> "id1"]

Workspaces ==
    {[state |-> EMPTY, folders |-> <<>>]}
    \cup {[state |-> FOLDER, folders |-> <<fa>>] : fa \in FirstFolders}
    \cup {[state |-> WORKSPACE, folders |-> <<fa, SecondFolder>>] : fa \in FirstFolders}

TheFile == [root |-> "/a", path |-> "f"]

Repositories ==
    {<<[rootUri |-> "/a", groups |-> <<{}, {}>>]>>,
     <<[rootUri |-> "/a", groups |-> <<{TheFile}, {TheFile}>>]>>}

DefaultConfig ==
    (AutoResumeKey :> "onReload") @@ (AutoStoreKey :> "off") @@ (PartialMatchesKey :> FALSE)
    @@ (useEditSessionsWithContinueOn :> Undefined) @@ (ContinueOnSetting :> "prompt")

InitCall ==
    /\ args = [ref |-> Undefined, silent |-> FALSE, force |-> FALSE]
    /\ data = NoData
    /\ changes = <<>>
    /\ next = 1
    /\ conflictingChanges = <<>>
    /\ confirmed = "none"
    /\ threw = "none"
    /\ initCalls = {}
    /\ initResult = "none"
    /\ reads = {}
    /\ storeDeletes = {}
    /\ fileOps = <<>>
    /\ notifications = {}
    /\ prompts = {}
    /\ dialogs = 0
    /\ telemetry = {}
    /\ caller = "none"
    /\ accountsMenuBadge = FALSE
    /\ pendingSignInListener = FALSE
    /\ signInPrompts = {}
    /\ run = NoRun
    /\ saves = 0
    /\ storeCalls = <<>>
    /\ writes = <<>>
    /\ storeResult = Undefined
    /\ opened = <<>>

DefaultTerminalConfig ==
    [enablePersistentSessions |-> TRUE, confirmOnExit |-> "never",
     persistentSessionReviveProcess |-> "onExit"]

\* The terminal service after its constructor.
TerminalServiceConstructed ==
    /\ platform = [isWeb |-> FALSE, isMacintosh |-> FALSE]
    /\ terminalConfig = DefaultTerminalConfig
    /\ startupKind = NewWindow
    /\ layoutInfo = UndefinedLayout
    /\ groups = <<>>
    /\ editorInstances = <<>>
    /\ terminals = <<>>
    /\ activeGroup = 0
    /\ activeInstance = 0
    /\ isShuttingDown = FALSE
    /\ shutdownWindowCount = NoWindowCount
    /\ terminalPc = "starting"
    /\ shutdown = NoShutdown
    /\ reconnectResult = NoReconnect

InitResume ==
    /\ \E w \in Workspaces : workbenchState = w.state /\ folders = w.folders
    /\ \E c \in Contents \cup {Absent} :
          files = [u \in Uris |-> IF u = TheFile THEN c ELSE Absent]
    /\ repositories \in Repositories
    /\ cloud \in {<<>>} \cup {<<[ref |-> "r1", editSession |-> e]>> : e \in Sessions}
    /\ \E b \in BOOLEAN : config = [DefaultConfig EXCEPT ![PartialMatchesKey] = b]
    /\ isSignedIn = TRUE
    /\ editSessionId = Undefined
    /\ continueOn = Undefined
    /\ applicationLaunchedViaContinueOn = FALSE
    /\ InitCall
    /\ TerminalServiceConstructed
    /\ pc = "idle"

NextResume ==
    \/ ResumeEditSession
    \/ PromptResume
    \/ ResumeConfirm
    \/ ResumeApplyChange
    \/ ResumeDeleteSession

SpecResume == InitResume /\ [][NextResume]_vars

StartupFolder == [uri |-> "/a", name |-> "A", identity |-> "id1"]

StartupSessions ==
    UNION {[version : {v},
            folders : {<<F>> : F \in
                [name : {"A"}, canonicalIdentity : {Undefined},
                 workingChanges : SeqUpTo(SessionChanges(v), 1)]}] :
           v \in 1..(EditSessionSchemaVersion + 1)}

InitStartup ==
    /\ \E w \in {[state |-> EMPTY, folders |-> <<>>],
                 [state |-> FOLDER, folders |-> <<StartupFolder>>]} :
          workbenchState = w.state /\ folders = w.folders
    /\ \E c \in {"y", Absent} :
          files = [u \in Uris |-> IF u = TheFile THEN c ELSE Absent]
    /\ repositories \in Repositories
    /\ cloud \in {<<>>} \cup {<<[ref |-> "r1", editSession |-> e]>> : e \in StartupSessions}
    /\ \E a \in {"onReload", "off"} : config = [DefaultConfig EXCEPT ![AutoResumeKey] = a]
    /\ isSignedIn \in BOOLEAN
    /\ editSessionId \in {Undefined, "r1"}
    /\ continueOn \in {Undefined, "1"}
    /\ applicationLaunchedViaContinueOn \in BOOLEAN
    /\ InitCall
    /\ TerminalServiceConstructed
    /\ pc = "start"

NextStartup ==
    \/ AutoResumeEditSession
    \/ AutoResumeAfterSignIn
    \/ OnDidSignIn
    \/ OnDidSignOut
    \/ ResumeEditSession
    \/ ResumeConfirm
    \/ ResumeApplyChange
    \/ ResumeDeleteSession
    \/ ResumeReturn

SpecStartup == InitStartup /\ [][NextStartup]_vars

StoreUris == Range(ResourceOrder)

StoreRepositories ==
    {<<>>}
    \cup {<<[rootUri |-> r, groups |-> <<g1, g2>>]>> :
            r \in {"/a"},
            g1 \in SUBSET StoreUris,
            g2 \in {{}}}

InitStore ==
    /\ workbenchState = FOLDER
    /\ folders = <<StartupFolder>>
    /\ \E cf \in {"x", Absent, Directory}, cd \in {"y", Directory} :
          files = [u \in StoreUris |->
                      IF u.root = "/out" THEN "x" ELSE IF u.path = "f" THEN cf ELSE cd]
    /\ repositories \in StoreRepositories
    /\ cloud = <<>>
    /\ \E store \in {"onShutdown", "off"}, setting \in {"prompt", "off"},
          legacy \in {Undefined, "off"} :
          config = [DefaultConfig EXCEPT ![AutoStoreKey] = store,
                                         ![ContinueOnSetting] = setting,
                                         ![useEditSessionsWithContinueOn] = legacy]
    /\ isSignedIn \in BOOLEAN
    /\ editSessionId = Undefined
    /\ continueOn = Undefined
    /\ applicationLaunchedViaContinueOn = FALSE
    /\ InitCall
    /\ TerminalServiceConstructed
    /\ pc = "idle"

NextStore ==
    \/ ContinueEditSessionAction
    \/ StoreLatestEditSession
    \/ WillShutdown

SpecStore == InitStore /\ [][NextStore]_vars

\* The edit-session contribution at rest, while the terminal service runs.
InitEditSessions ==
    /\ workbenchState = FOLDER
    /\ folders = <<StartupFolder>>
    /\ files = [u \in Uris |-> Absent]
    /\ repositories = <<>>
    /\ cloud = <<>>
    /\ config = DefaultConfig
    /\ isSignedIn = FALSE
    /\ editSessionId = Undefined
    /\ continueOn = Undefined
    /\ applicationLaunchedViaContinueOn = FALSE
    /\ InitCall
    /\ pc = "idle"

\* The terminals a layout can list: none (null), an orphan, an orphan task,
\* and a terminal that is still attached to a window.
TerminalKinds == {"null", "orphan", "orphanTask", "attached"}

\* The t-th tab of a layout, its terminals being of the kinds ks.
LayoutTab(t, ks, isActive, activeId) ==
    [isActive |-> isActive,
     activePersistentProcessId |-> activeId,
     terminals |->
        [j \in DOMAIN ks |->
            [relativeSize |-> 1,
             terminal |-> IF ks[j] = "null" THEN NullTerminal
                          ELSE [id |-> 10 * t + j,
                                isOrphan |-> ks[j] \in {"orphan", "orphanTask"},
                                type |-> IF ks[j] = "orphanTask" THEN "Task"
                                         ELSE "Local"]]]]

LayoutTabs(t) ==
    {LayoutTab(t, ks, a, id) :
        ks \in SeqUpTo(TerminalKinds, MaxTerminalsPerTab),
        a \in BOOLEAN,
        id \in {NoId, 10 * t + 1}}

RECURSIVE TabLists(_)
TabLists(n) ==
    IF n = 0 THEN {<<>>}
    ELSE {Append(ts, tab) : ts \in TabLists(n - 1), tab \in LayoutTabs(n)}

\* ITerminalsLayoutInfo, or undefined.
Layouts ==
    {UndefinedLayout}
    \cup {[defined |-> TRUE, tabs |-> ts] : ts \in UNION {TabLists(n) : n \in 0..MaxTabs}}

\* The window starts: the backend holds a layout, no terminal exists yet.
InitReconnect ==
    /\ InitEditSessions
    /\ platform = [isWeb |-> FALSE, isMacintosh |-> FALSE]
    /\ terminalConfig = DefaultTerminalConfig
    /\ startupKind \in {NewWindow, ReloadedWindow, ReopenedWindow}
    /\ layoutInfo \in Layouts
    /\ groups = <<>>
    /\ editorInstances = <<>>
    /\ terminals = <<>>
    /\ activeGroup = 0
    /\ activeInstance = 0
    /\ isShuttingDown = FALSE
    /\ shutdownWindowCount = NoWindowCount
    /\ terminalPc = "starting"
    /\ shutdown = NoShutdown
    /\ reconnectResult = NoReconnect

NextReconnect == ReconnectToTerminals

SpecReconnect == InitReconnect /\ [][NextReconnect]_vars

\* A terminal instance created by the user.
UserInstance(id, target, hasChildProcesses) ==
    [instanceId |-> id, attachPersistentProcess |-> NullTerminal, parentTerminalId |-> 0,
     target |-> target, hasChildProcesses |-> hasChildProcesses, disposed |-> <<>>]

\* The terminal instances alive at shutdown.
InstanceLists ==
    UNION {{[i \in 1..n |-> UserInstance(i, f[i][1], f[i][2])] :
               f \in [1..n -> {Panel, Editor} \X BOOLEAN]} : n \in 0..MaxInstances}

\* The layout the backend holds while terminals are alive.
SavedLayout == [defined |-> TRUE, tabs |-> <<LayoutTab(1, <<"attached">>, TRUE, 11)>>]

TerminalConfigs ==
    [enablePersistentSessions : BOOLEAN,
     confirmOnExit : {"never", "always", "hasChildProcesses"},
     persistentSessionReviveProcess : {"onExit", "onExitAndWindowClose", "never"}]

\* The window runs with some terminals in the panel (one group) and in editors.
InitShutdown ==
    /\ InitEditSessions
    /\ platform \in [isWeb : BOOLEAN, isMacintosh : BOOLEAN]
    /\ terminalConfig \in TerminalConfigs
    /\ startupKind = NewWindow
    /\ layoutInfo = SavedLayout
    /\ terminals \in InstanceLists
    /\ \E panel \in {SelectSeq([i \in DOMAIN terminals |-> i],
                               LAMBDA i : terminals[i].target = Panel)} :
          groups = IF Len(panel) > 0 THEN <<panel>> ELSE <<>>
    /\ editorInstances = SelectSeq([i \in DOMAIN terminals |-> i],
                                   LAMBDA i : terminals[i].target = Editor)
    /\ activeGroup = IF groups = <<>> THEN 0 ELSE 1
    /\ activeInstance = IF terminals = <<>> THEN 0 ELSE 1
    /\ isShuttingDown = FALSE
    /\ shutdownWindowCount = NoWindowCount
    /\ terminalPc = "running"
    /\ shutdown = NoShutdown
    /\ reconnectResult = NoReconnect

NextShutdown ==
    \/ OnBeforeShutdown
    \/ OnBeforeShutdownConfirmation
    \/ OnWillShutdown

SpecShutdown == InitShutdown /\ [][NextShutdown]_vars

\* ------------------------------------------------------------------ claims

\* The running call of resumeEditSession has come to its end.
Returned == pc \in {"done", "idle"}

InStore(ref) == \E i \in DOMAIN cloud : cloud[i].ref = ref

\* The file service call the loop makes for a change, given the file's state.
OpFor(change, before) ==
    IF change.type = Addition THEN "writeFile"
    ELSE IF before # Absent THEN "del" ELSE "none"

\* Every change generateChanges returned went through the loop, in order.
AllChangesApplied ==
    /\ Len(fileOps) = Len(changes)
    /\ \A j \in DOMAIN changes :
          /\ fileOps[j].uri = changes[j].uri
          /\ fileOps[j].op = OpFor(changes[j], fileOps[j].before)

\* C1: resumeEditSession deletes the session from the cloud store only after
\* every change was applied without error; when a file write or a file delete
\* throws, delete is not called, the session stays in the store, the 'Failed
\* to resume' notification is shown and the call completes.
C1_DeleteOnlyAfterApply ==
    /\ storeDeletes # {} =>
          /\ storeDeletes = {data.ref}
          /\ AllChangesApplied
          /\ threw \in {"none", "delete"}
    /\ threw \in {"writeFile", "del"} =>
          /\ storeDeletes = {}
          /\ InStore(data.ref)
          /\ ResumeFailed \in notifications
          /\ "resumeSucceeded" \notin telemetry
          /\ Returned

\* A write threw after an earlier change had been applied.
C1_Witness ==
    /\ threw \in {"writeFile", "del"}
    /\ Len(fileOps) > 0
    /\ pc = "done"

\* C2: when generateChanges reports a conflicting change and the user does
\* not confirm the dialog, no file is written or deleted, the session is not
\* deleted from the cloud store and 'resumeSucceeded' is not reported.
C2_DeclinedChangesNothing ==
    (Len(conflictingChanges) > 0 /\ confirmed = "no") =>
        /\ fileOps = <<>>
        /\ storeDeletes = {}
        /\ InStore(data.ref)
        /\ "resumeSucceeded" \notin telemetry
        /\ Returned

C2_Witness ==
    /\ Len(conflictingChanges) > 0
    /\ confirmed = "no"
    /\ dialogs = 1

\* All resources listed in a resource group of an SCM repository.
AllChangedResources ==
    UNION {getChangedResources(repositories[q]) : q \in DOMAIN repositories}

\* The file's state before the call differs from what the change brings.
DiffersFromIncoming(change, before) ==
    IF change.type = Addition
    THEN before # decodeEditSessionFileContent(data.editSession.version, change.contents)
    ELSE before # Absent

\* C3: resumeEditSession never overwrites or deletes a file that has
\* uncommitted local changes and differs from the incoming change unless the
\* user confirmed the dialog, however the session folder was matched.
C3_NoSilentOverwrite ==
    \A j \in DOMAIN fileOps :
        (/\ fileOps[j].op \in {"writeFile", "del"}
         /\ fileOps[j].uri \in AllChangedResources
         /\ DiffersFromIncoming(changes[j], fileOps[j].before))
        => confirmed = "yes"

\* C4: in an empty workspace resumeEditSession returns without initializing
\* or reading the cloud store, without notification or dialog and without
\* touching a file, whatever ref, silent and force are.
C4_EmptyWorkspaceNoEffect ==
    (workbenchState = EMPTY /\ caller # "none") =>
        /\ Returned
        /\ initCalls = {}
        /\ reads = {}
        /\ notifications = {}
        /\ prompts = {}
        /\ dialogs = 0
        /\ fileOps = <<>>
        /\ storeDeletes = {}
        /\ telemetry = {}

C4_Witness ==
    /\ workbenchState = EMPTY
    /\ pc = "done"
    /\ args.ref # Undefined
    /\ args.silent
    /\ args.force
    /\ cloud # <<>>

\* C6: a session whose version is greater than EditSessionSchemaVersion gets
\* the 'Please upgrade' error and the outcome 'clientUpdateNeeded'; no change
\* is applied and the session is not deleted from the cloud store.
C6_NewerSchemaRejected ==
    (caller # "none" /\ data.editSession.version > EditSessionSchemaVersion) =>
        /\ Returned
        /\ ClientTooOld \in notifications
        /\ "clientUpdateNeeded" \in telemetry
        /\ fileOps = <<>>
        /\ storeDeletes = {}
        /\ InStore(data.ref)

C6_Witness ==
    /\ pc = "done"
    /\ data.editSession.version > EditSessionSchemaVersion
    /\ \E k \in DOMAIN data.editSession.folders :
          data.editSession.folders[k].workingChanges # <<>>

StartupCallers == {"autoResume:editSessionId", "autoResume", "onDidSignIn"}

\* C7: with workbench.cloudChanges.autoResume 'off', autoResumeEditSession
\* reads nothing from the cloud store, asks for no sign-in and shows no
\* accounts badge.
C7_OffNeverResumes ==
    config[AutoResumeKey] = "off" =>
        /\ caller \in StartupCallers => reads = {}
        /\ "autoResumeEditSession" \notin signInPrompts
        /\ ~pendingSignInListener

\* The Continue Working On action ran past the destination pick.
ContinueRan == run.name = "continue" /\ "noSelection" \notin telemetry

\* C8: with workbench.cloudChanges.continueOn 'off' and the user not signed
\* in, Continue Working On asks for no sign-in and stores nothing; with the
\* user signed in, it calls storeEditSession iff a repository has changes.
C8_OffNeverPrompts ==
    ContinueRan =>
        /\ (config[ContinueOnSetting] = "off" /\ ~run.signedIn) =>
              /\ "shouldContinueOnWithEditSession" \notin signInPrompts
              /\ storeCalls = <<>>
              /\ writes = <<>>
        /\ run.signedIn => (storeCalls # <<>> <=> hasEditSession)

\* C9: shutdown calls storeEditSession iff
\* workbench.experimental.cloudChanges.autoStore is 'onShutdown'; with 'off'
\* it saves no editor and writes nothing to the cloud store.
C9_ShutdownStoresIffOnShutdown ==
    run.name = "shutdown" =>
        /\ storeCalls # <<>> <=> config[AutoStoreKey] = "onShutdown"
        /\ config[AutoStoreKey] = "off" => (saves = 0 /\ writes = <<>>)

C9_Witness ==
    /\ run.name = "shutdown"
    /\ config[AutoStoreKey] = "onShutdown"
    /\ saves = 1
    /\ writes # <<>>
    /\ storeResult # Undefined

\* Some repository lists a changed resource that lies in a workspace folder
\* and is not a directory.
HasStorableEdits ==
    \E q \in DOMAIN repositories :
        \E u \in getChangedResources(repositories[q]) :
            getWorkspaceFolder(u.root) # 0 /\ files[u] # Directory

\* C10: when no repository has a changed resource in a workspace folder that
\* is not a directory, storeEditSession returns undefined and does not call
\* write, and it shows the skipped notification only from the store command.
C10_NoEditsSkipsStore ==
    (storeCalls # <<>> /\ ~HasStorableEdits) =>
        /\ storeResult = Undefined
        /\ writes = <<>>
        /\ SkippedStoring \in notifications <=> storeCalls[1]

C10_Witness ==
    /\ storeCalls = <<TRUE>>
    /\ hasEditSession
    /\ ~HasStorableEdits
    /\ SkippedStoring \in notifications
    /\ storeResult = Undefined

\* C11: storeEditSession returns a ref iff write succeeded; a failing write
\* is never thrown on but gives undefined, and an error notification is
\* shown exactly for a UserDataSyncStoreError: the size-limit one for
\* TooLarge, the cannot-be-stored one for every other code.
C11_RefIffWriteSucceeded ==
    storeCalls # <<>> =>
        /\ storeResult # Undefined <=> run.write = "ok"
        /\ ~run.threw
        /\ PayloadTooLarge \in notifications <=> run.write = "TooLarge"
        /\ PayloadFailed \in notifications <=> run.write = "UserDataSyncStoreError"
        /\ run.write \in {"none", "ok", "Error"} =>
              notifications \cap {PayloadTooLarge, PayloadFailed} = {}

C11_Witness ==
    /\ run.name = "continue"
    /\ storeCalls = <<FALSE>>
    /\ run.write = "Error"
    /\ storeResult = Undefined
    /\ notifications = {}
    /\ ~run.threw

\* The URI encoding of the refs the store hands out.
PercentEncoded ==
    [r \in Range(RefNames) |->
        IF r = "r&3" THEN "r%263" ELSE IF r = "r 2" THEN "r%202" ELSE r]

\* C12: when a ref was stored and the destination is a URI, Continue Working
\* On opens exactly the destination with editSessionId=<encoded ref> and
\* continueOn=1 added to its query, after an ampersand when the query was not
\* empty, every other component unchanged.
C12_OpenedUriCarriesRef ==
    (ContinueRan /\ run.ref # Undefined /\ run.destination.kind = "uri") =>
        /\ Len(opened) = 1
        /\ opened[1].kind = "uri"
        /\ opened[1].path = run.destination.path
        /\ opened[1].query =
              IF run.destination.query = ""
              THEN "editSessionId=" \o PercentEncoded[run.ref] \o "&continueOn=1"
              ELSE run.destination.query \o "&editSessionId="
                       \o PercentEncoded[run.ref] \o "&continueOn=1"

C12_Witness ==
    /\ ContinueRan
    /\ run.ref = "r&3"
    /\ run.destination.kind = "uri"
    /\ run.destination.query = ""
    /\ opened = <<[kind |-> "uri", path |-> "vscode://remote/home",
                   query |-> "editSessionId=r%263&continueOn=1"]>>

\* C13: whenever Continue Working On resolved its destination to a URI, it
\* opens that destination exactly once, whether or not a ref was stored.
C13_DestinationAlwaysOpened ==
    (ContinueRan /\ run.destination.kind = "uri") =>
        /\ Len(opened) = 1
        /\ opened[1].kind = "uri"
        /\ opened[1].path = run.destination.path

\* A shutdown attempt has been answered by the terminal service.
Decided == shutdown.veto \in {"true", "false"}

\* C14: on web _onBeforeShutdown answers false synchronously, whatever the
\* reason and the instances, shows no confirmation and sets _isShuttingDown.
C14_WebNeverVetoes ==
    (platform.isWeb /\ shutdown.veto # "none") =>
        /\ shutdown.veto = "false"
        /\ shutdown.sync
        /\ shutdown.dialogs = 0
        /\ terminalPc # "confirming"
        /\ isShuttingDown

C14_Witness ==
    /\ platform.isWeb
    /\ shutdown.reason = CLOSE
    /\ shutdown.veto = "false"
    /\ ~terminalConfig.enablePersistentSessions
    /\ terminalConfig.confirmOnExit = "always"
    /\ Len(Instances(groups)) = 2
    /\ isShuttingDown

\* Some instance of the window has child processes.
SomeChildProcesses ==
    \E i \in Range(Instances(groups)) : terminals[i].hasChildProcesses

PanelDisposals == {terminals[i].disposed : i \in Range(GroupInstances(groups))}

\* C16: _onWillShutdown with persistent sessions and reason RELOAD detaches
\* the process of every panel instance, force-disposes none and leaves the
\* layout info alone; otherwise it disposes every panel instance with reason
\* Shutdown and detaches none.
C16_ReloadDetachesElseDisposes ==
    terminalPc = "shutdown" =>
        IF terminalConfig.enablePersistentSessions /\ shutdown.reason = RELOAD
        THEN /\ PanelDisposals \subseteq {<<<<"detachProcessAndDispose", "Shutdown">>>>}
             /\ layoutInfo = SavedLayout
             /\ shutdown.layoutCalls = 0
        ELSE PanelDisposals \subseteq {<<<<"dispose", "Shutdown">>>>}

C16_Witness ==
    /\ terminalPc = "shutdown"
    /\ terminalConfig.enablePersistentSessions
    /\ shutdown.reason = RELOAD
    /\ Len(GroupInstances(groups)) = 2
    /\ PanelDisposals = {<<<<"detachProcessAndDispose", "Shutdown">>>>}
    /\ layoutInfo = SavedLayout

\* The changes of the folders of the edit session that have a matching
\* workspace folder, from folder k on.
RECURSIVE MatchedChanges(_, _, _)
MatchedChanges(editSession, force, k) ==
    IF k > Len(editSession.folders) THEN <<>>
    ELSE LET folder == editSession.folders[k]
             root == FolderRoot(folder, force).root
         IN  (IF root = 0 THEN <<>> ELSE FolderChanges(folder, folders[root].uri))
             \o MatchedChanges(editSession, force, k + 1)

\* generateChanges has returned to the running call of resumeEditSession.
GeneratedChanges ==
    /\ caller # "none"
    /\ data # NoData
    /\ ~ClientUpdateNeeded(data.editSession.version)
    /\ threw # "generateChanges"

\* C17: a folder of the edit session without matching workspace folder is
\* skipped alone: generateChanges still returns the changes of the folders
\* that matched, and resumeEditSession applies them.
C17_UnmatchedFolderSkippedAlone ==
    GeneratedChanges => changes = MatchedChanges(data.editSession, args.force, 1)

\* The base64 text of the contents a file can have.
Base64Of == [c \in Contents |-> IF c = "x" THEN "eA==" ELSE "eQ=="]

\* The change records the resource: an Addition with its base64 contents
\* when it exists, a Deletion without contents when it does not.
Records(change, u) ==
    /\ change.relativeFilePath = u.path
    /\ \/ /\ change.type = Addition
          /\ files[u] \in Contents
          /\ change.contents = Base64Of[files[u]]
       \/ /\ change.type = Deletion
          /\ files[u] = Absent
          /\ change.contents = Undefined

\* The changed resources of a repository that lie in a workspace folder and
\* are not directories.
StorableResources(repository) ==
    {u \in getChangedResources(repository) :
        getWorkspaceFolder(u.root) # 0 /\ files[u] # Directory}

\* C18: every working change of a stored edit session is an Addition with
\* base64 contents of a resource that exists or a Deletion without contents
\* of one that does not; resources outside the workspace folders and
\* directories are left out, every other changed resource is recorded.
C18_StoredChangesWellFormed ==
    \A w \in Range(writes) : \A q \in DOMAIN w.folders :
        LET recorded == w.folders[q].workingChanges
            storable == StorableResources(repositories[q])
        IN  /\ \A j \in DOMAIN recorded : \E u \in storable : Records(recorded[j], u)
            /\ \A u \in storable : \E j \in DOMAIN recorded : Records(recorded[j], u)
            /\ Len(recorded) = Cardinality(storable)

C18_Witness ==
    /\ writes # <<>>
    /\ files[[root |-> "/a", path |-> "f"]] = Absent
    /\ files[[root |-> "/a", path |-> "d"]] = Directory
    /\ getChangedResources(repositories[1]) = Range(ResourceOrder)
    /\ writes[1].folders[1].workingChanges =
          <<[relativeFilePath |-> "f", type |-> Deletion, contents |-> Undefined]>>

\* The persistent process ids of the terminals of a tab that are to be
\* reattached: orphans, tasks only in a reloaded window.
Reattachable(tab) ==
    LET kept == SelectSeq(tab.terminals, LAMBDA t :
                    /\ t.terminal # NullTerminal
                    /\ t.terminal.isOrphan
                    /\ (t.terminal.type = "Task" => startupKind = ReloadedWindow))
    IN  [j \in DOMAIN kept |-> kept[j].terminal.id]

\* One list of ids per tab that has a terminal to reattach, from tab k on.
RECURSIVE ReattachableGroups(_, _)
ReattachableGroups(tabs, k) ==
    IF k > Len(tabs) THEN <<>>
    ELSE (IF Len(Reattachable(tabs[k])) > 0 THEN <<Reattachable(tabs[k])>> ELSE <<>>)
         \o ReattachableGroups(tabs, k + 1)

\* The index of the group recreated from tab k.
GroupOfTab(tabs, k) == Len(ReattachableGroups(SubSeq(tabs, 1, k), 1))

\* _recreateTerminalGroups ran on a layout.
Recreated == terminalPc = "running" /\ reconnectResult # NoReconnect /\ layoutInfo.defined

\* The groups of the panel are those of the layout's reattachable terminals,
\* each further terminal of a tab a split of the one before it.
GroupsFollowLayout ==
    /\ [g \in DOMAIN groups |->
           [j \in DOMAIN groups[g] |-> PersistentProcessId(terminals[groups[g][j]])]]
          = ReattachableGroups(layoutInfo.tabs, 1)
    /\ \A g \in DOMAIN groups : \A j \in DOMAIN groups[g] :
          /\ terminals[groups[g][j]].target = Panel
          /\ terminals[groups[g][j]].parentTerminalId =
                IF j = 1 THEN 0 ELSE groups[g][j - 1]

\* The active group is the one recreated from the tab marked isActive.
ActiveGroupFollowsLayout ==
    \A k \in DOMAIN layoutInfo.tabs :
        (/\ layoutInfo.tabs[k].isActive
         /\ Len(Reattachable(layoutInfo.tabs[k])) > 0
         /\ \A m \in DOMAIN layoutInfo.tabs : layoutInfo.tabs[m].isActive => m = k)
        => activeGroup = GroupOfTab(layoutInfo.tabs, k)

\* C19: _recreateTerminalGroups reattaches only the orphan terminals of the
\* layout, tasks only in a reloaded window, one panel group per tab with each
\* further terminal split from the previous one, activates the group of the
\* tab marked isActive, and returns the number of terminals it reconnected.
C19_RecreatesGroupsAndCounts ==
    Recreated =>
        /\ GroupsFollowLayout
        /\ ActiveGroupFollowsLayout
        /\ reconnectResult.returned = Len(terminals)

====
